---------------------------- MODULE Spec2Model ----------------------------
(***************************************************************************)
(* Model of the Express server (src/unnamed/part_000): the Razorpay        *)
(* payment endpoints (order creation, webhook, legacy verify) over the     *)
(* Firestore collection 'enrollments', and the rate-limited call queue     *)
(* that serialises the Zoom API calls, and the Zoom automation that keeps   *)
(* a meeting link and a pinned message on course and batch documents.      *)
(*                                                                         *)
(* Every request handler is an async function: it runs without             *)
(* interruption up to its next await, and handlers of different requests   *)
(* interleave at the awaits.  One action below is one such uninterrupted   *)
(* run of a handler.  Firestore's serverTimestamp fields (createdAt,       *)
(* updatedAt) are not modelled.                                            *)
(***************************************************************************)
EXTENDS Integers, Sequences, FiniteSets, TLC

\* ------------------------------------------------------------- bounds
\* CreateOrder requests that pass validation (uuids generated).
MaxOrderReqs == 2
\* Webhook deliveries that pass signature verification and reach the store.
MaxHooks == 2
\* Request handlers suspended at an await at the same time.
MaxInflight == 2
\* Calls submitted to zoomApiCall.
MaxCalls == 2
\* Evaluations of a document started by the onSnapshot watchers.
MaxWatch == 1
\* Runs of validateAll.
MaxSweeps == 1

VARIABLES
  enrollments,   \* Firestore collection 'enrollments': document id -> data
  uuidCount,     \* uuids handed out by uuidv4 so far
  orderCount,    \* orders created at the payment provider so far
  orderReqs,     \* CreateOrder handlers suspended at an await
  hooks,         \* webhook handlers suspended at an await
  hookCount,     \* verified payment.captured deliveries accepted so far
  step,          \* the handler run just taken: request, phase, response
  paidCount      \* history: Pending -> Paid transitions per enrollment id

payVars == <<enrollments, uuidCount, orderCount, orderReqs, hooks, hookCount,
             step, paidCount>>

VARIABLES
  zoomTaskQueue,      \* the queued exec closures, by the call each belongs to
  zoomWorkerRunning,
  workTimer,          \* setTimeout(work, ...): << >> or <<ms left>>
  calls,              \* the zoomApiCall promises: attempt, state, retry delay
  sinceStart,         \* history: ms since the last call was started (capped)
  startLog,           \* history: the calls in the order of their first attempts
  qstep               \* the queue step just taken

queueVars == <<zoomTaskQueue, zoomWorkerRunning, workTimer, calls, sinceStart,
               startLog, qstep>>

VARIABLES
  docs,          \* the course and batch documents: id -> zoom fields
  messages,      \* the batch's 'messages' subcollection: id -> text, timestamp
  meetingCount,  \* meetings created at Zoom by this server
  msgCount,      \* messages added by this server
  fallback,      \* process.env.DEFAULT_ZOOM_LINK
  evals,         \* ensureCourseZoom / ensureBatchZoom calls suspended at an await
  evalCount,     \* evaluations started so far
  watchCount,    \* evaluations started by the watchers so far
  sweep,         \* validateAll: its snapshot, the documents left, its state
  sweepCount,    \* runs of validateAll so far
  zstep          \* the evaluation step just taken

zoomVars == <<docs, messages, meetingCount, msgCount, fallback, evals,
              evalCount, watchCount, sweep, sweepCount, zstep>>

VARIABLES
  changes,       \* change events of the documents the listeners have not yet handled
  provider,      \* how Zoom answers while the listeners follow the server's own writes
  settled        \* history: documents an evaluation of which wrote nothing to the document

loopVars == <<changes, provider, settled>>

VARIABLES
  client         \* a run of createEnrollmentAndPay in the browser

clientVars == <<client>>

\* ------------------------------------------------------------ values
\* JavaScript undefined / null / a missing JSON member.
NoValue == <<>>

EnrollmentId(n) == <<"enr", n>>
OrderId(n) == <<"order", n>>
PaymentId(n) == <<"pay", n>>
\* An enrollment id no uuidv4() call ever returns (uuidCount starts at 1).
GhostEnrollmentId == EnrollmentId(0)

Range(s) == {s[i] : i \in DOMAIN s}

Count(x, s) == Cardinality({i \in DOMAIN s : s[i] = x})

\* ------------------------------------------------ hex and HMAC-SHA256
\* Digests are one byte wide: two hex characters.
HexLower == <<"0","1","2","3","4","5","6","7","8","9","a","b","c","d","e","f">>
HexUpper == <<"0","1","2","3","4","5","6","7","8","9","A","B","C","D","E","F">>

\* digest('hex'): lower-case hex of a byte.
HexEncode(byte) == <<HexLower[(byte \div 16) + 1], HexLower[(byte % 16) + 1]>>

\* The value of a hex character of either case.
HexValues ==
  [c \in Range(HexLower) \cup Range(HexUpper) |->
     (CHOOSE i \in 1..16 : HexLower[i] = c \/ HexUpper[i] = c) - 1]

IsHexChar(c) == c \in DOMAIN HexValues

HexValue(c) == HexValues[c]

\* Buffer.from(s, 'hex'): decodes pairs of hex characters of either case and
\* stops at the first pair that is not hex; a trailing single character is
\* dropped.
RECURSIVE HexDecode(_)
HexDecode(s) ==
  IF Len(s) < 2 \/ ~IsHexChar(s[1]) \/ ~IsHexChar(s[2])
    THEN <<>>
    ELSE <<HexValue(s[1]) * 16 + HexValue(s[2])>> \o HexDecode(SubSeq(s, 3, Len(s)))

\* The two secrets of the environment.
WebhookSecret == "RAZORPAY_WEBHOOK_SECRET"
KeySecret == "RAZORPAY_KEY_SECRET"

SecretPad(secret) == IF secret = WebhookSecret THEN 17 ELSE 101

\* A message as a number below 256, one per message of the model.
BodyCode(b) ==
  CASE b.kind = "captured" ->
         (b.pid[2] - 1) * 64 + (IF b.order = NoValue THEN 0 ELSE b.order[2]) * 8
           + (IF b.notes = NoValue THEN 7 ELSE b.notes[2])
    [] b.kind = "other" -> 200
    [] b.kind = "noentity" -> 201
    [] b.kind = "notjson" -> 202
    [] b.kind = "sign" -> 128 + b.order[2] * 8 + b.pid[2]

\* crypto.createHmac('sha256', secret).update(msg).digest(): a keyed digest
\* without collisions on the messages of the model.
Hmac(secret, msg) == (BodyCode(msg) + SecretPad(secret)) % 256

HmacHex(secret, msg) == HexEncode(Hmac(secret, msg))

\* String.prototype.replace('sha256=', ''): removes the first occurrence,
\* wherever it is.  A header is a sequence of characters in which the text
\* "sha256=" is one element.
RECURSIVE ReplaceFirst(_, _)
ReplaceFirst(s, tok) ==
  IF s = <<>> THEN <<>>
  ELSE IF Head(s) = tok THEN Tail(s)
  ELSE <<Head(s)>> \o ReplaceFirst(Tail(s), tok)

\* crypto.timingSafeEqual throws when the buffers differ in length; the
\* catch of verifyWebhookSignature turns every exception into false.
verifyWebhookSignature(body, signature, secret) ==
  LET expected == HexDecode(HmacHex(secret, body))
      actual == HexDecode(ReplaceFirst(signature, "sha256="))
  IN  IF Len(expected) # Len(actual) THEN FALSE ELSE expected = actual


\* ----------------------------------------------------- request values
\* A JSON member of a request body: NoValue when missing, else a one-element
\* tuple holding the string.  '' is a string that is falsy in JavaScript.
Truthy(v) == v # NoValue /\ v # <<"">>

\* A JSON amount: NoValue, <<"num", i, f>> for the number i + f/10, or
\* <<"str", s>> for a string of characters.
AmountTruthy(a) ==
  IF a = NoValue THEN FALSE
  ELSE IF a[1] = "num" THEN a[2] # 0 \/ a[3] # 0
  ELSE a[2] # <<>>

\* parseInt's NaN.
NaN == -1

IsDigit(c) == \E i \in 1..10 : HexLower[i] = c

DigitValue(c) == (CHOOSE i \in 1..10 : HexLower[i] = c) - 1

RECURSIVE LeadingDigits(_)
LeadingDigits(s) ==
  IF s = <<>> \/ ~IsDigit(Head(s)) THEN <<>>
  ELSE <<Head(s)>> \o LeadingDigits(Tail(s))

RECURSIVE DecimalValue(_)
DecimalValue(s) ==
  IF s = <<>> THEN 0
  ELSE DecimalValue(SubSeq(s, 1, Len(s) - 1)) * 10 + DigitValue(s[Len(s)])

\* parseInt(amount): of a string, the value of its leading decimal digits,
\* NaN when it has none; of a number, its integer part.
parseInt(a) ==
  IF a[1] = "num" THEN a[2]
  ELSE IF LeadingDigits(a[2]) = <<>> THEN NaN
  ELSE DecimalValue(LeadingDigits(a[2]))

\* ------------------------------------------------------------ the store
Exists(e) == e \in DOMAIN enrollments

\* adminDb.collection('enrollments').where('razorpayOrderId', '==', orderId)
EnrollmentsOfOrder(orderId) ==
  {e \in DOMAIN enrollments : enrollments[e].razorpayOrderId = orderId}

arrayUnion_Append(arr, x) == Append(arr, x)

\* FieldValue.arrayUnion(x): appends x unless an equal element is present.
arrayUnion(arr, x) == IF x \in Range(arr) THEN arr ELSE Append(arr, x)

InFlight == Cardinality(orderReqs) + Cardinality(hooks)

\* The record of a handler run: the endpoint, the part of the handler that
\* ran, the status answered (0: suspended at an await, no answer yet), the
\* request, and the enrollment and order ids the handler holds.
StepRec(op, phase, status, req, eid, oid) ==
  [op |-> op, phase |-> phase, status |-> status, req |-> req,
   eid |-> eid, oid |-> oid, repeat |-> FALSE]

\* ------------------------------------------- POST /api/payment/order
UserIds == {NoValue, <<"">>, <<"u1">>}
CourseIds == {NoValue, <<"c1">>}
Emails == {NoValue, <<"a@x">>}
Amounts ==
  {NoValue, <<"num", 0, 0>>, <<"num", 500, 0>>, <<"num", 500, 5>>,
   <<"str", <<"5", "0">>>>, <<"str", <<"5", "a">>>>, <<"str", <<"a">>>>}

\* The request bodies.
OrderRequests ==
  [userId : UserIds, courseId : CourseIds, amount : Amounts,
   customerEmail : Emails]

\* The requests of the specification of all three endpoints together: a
\* complete one and one without customerEmail.
CoreOrderRequests ==
  {r \in OrderRequests :
     /\ r.userId = <<"u1">> /\ r.courseId = <<"c1">>
     /\ r.amount = <<"num", 500, 0>>}

OrderRequestValid_NoEmail(req) ==
  /\ Truthy(req.userId)
  /\ Truthy(req.courseId)
  /\ AmountTruthy(req.amount)

\* if (!userId || !courseId || !amount || !customerEmail)
OrderRequestValid(req) ==
  /\ Truthy(req.userId)
  /\ Truthy(req.courseId)
  /\ AmountTruthy(req.amount)
  /\ Truthy(req.customerEmail)

NewEnrollmentId_Reused(req) == EnrollmentId(1)

\* const enrollmentId = uuidv4();
NewEnrollmentId(req) == EnrollmentId(uuidCount + 1)

EnrollmentData_Paise(req, eid, oid) ==
  [enrollmentId |-> eid,
   userId |-> req.userId,
   courseId |-> req.courseId,
   amount |-> parseInt(req.amount) * 100,
   customerEmail |-> req.customerEmail,
   razorpayOrderId |-> oid,
   status |-> "Pending",
   razorpayPaymentId |-> NoValue,
   paymentMethod |-> NoValue,
   signature |-> NoValue,
   rawWebhookEvents |-> <<>>]

\* The document written by the handler.
EnrollmentData(req, eid, oid) ==
  [enrollmentId |-> eid,
   userId |-> req.userId,
   courseId |-> req.courseId,
   amount |-> parseInt(req.amount),
   customerEmail |-> req.customerEmail,
   razorpayOrderId |-> oid,
   status |-> "Pending",
   razorpayPaymentId |-> NoValue,
   paymentMethod |-> NoValue,
   signature |-> NoValue,
   rawWebhookEvents |-> <<>>]

\* The handler up to `await razorpay.orders.create(orderOptions)`.
OrderReceive(req) ==
  IF ~OrderRequestValid(req)
    THEN /\ step' = StepRec("order", "receive", 400, req, NoValue, NoValue)
         /\ UNCHANGED <<enrollments, uuidCount, orderCount, orderReqs, hooks,
                        hookCount, paidCount>>
    ELSE /\ uuidCount < MaxOrderReqs
         /\ InFlight < MaxInflight
         /\ LET eid == NewEnrollmentId(req) IN
              /\ orderReqs' = orderReqs \cup
                   {[req |-> req, eid |-> eid, oid |-> NoValue, pc |-> "provider"]}
              /\ step' = StepRec("order", "receive", 0, req, eid, NoValue)
         /\ uuidCount' = uuidCount + 1
         /\ UNCHANGED <<enrollments, orderCount, hooks, hookCount, paidCount>>

\* razorpay.orders.create resolves with a new order, or rejects (amount or
\* credentials refused): the catch answers 500.
OrderProvider(o, ok) ==
  /\ o \in orderReqs
  /\ o.pc = "provider"
  /\ IF ok
       THEN /\ orderCount' = orderCount + 1
            /\ orderReqs' = (orderReqs \ {o}) \cup
                 {[o EXCEPT !.oid = OrderId(orderCount + 1), !.pc = "set"]}
            /\ step' = StepRec("order", "provider", 0, o.req, o.eid,
                               OrderId(orderCount + 1))
       ELSE /\ orderReqs' = orderReqs \ {o}
            /\ step' = StepRec("order", "provider", 500, o.req, o.eid, NoValue)
            /\ UNCHANGED orderCount
  /\ UNCHANGED <<enrollments, uuidCount, hooks, hookCount, paidCount>>

OrderSet_WriteThenFail(o, ok) ==
  /\ o \in orderReqs
  /\ o.pc = "set"
  /\ orderReqs' = orderReqs \ {o}
  /\ enrollments' = (o.eid :> EnrollmentData(o.req, o.eid, o.oid)) @@ enrollments
  /\ step' = StepRec("order", "set", IF ok THEN 200 ELSE 500, o.req, o.eid, o.oid)
  /\ UNCHANGED <<uuidCount, orderCount, hooks, hookCount, paidCount>>

\* doc(enrollmentId).set(enrollmentData) and res.json({orderId, ...,
\* enrollmentId}); a rejected write is answered 500 by the catch.
OrderSet(o, ok) ==
  /\ o \in orderReqs
  /\ o.pc = "set"
  /\ orderReqs' = orderReqs \ {o}
  /\ IF ok
       THEN /\ enrollments' =
                 (o.eid :> EnrollmentData(o.req, o.eid, o.oid)) @@ enrollments
            /\ step' = StepRec("order", "set", 200, o.req, o.eid, o.oid)
       ELSE /\ step' = StepRec("order", "set", 500, o.req, o.eid, o.oid)
            /\ UNCHANGED enrollments
  /\ UNCHANGED <<uuidCount, orderCount, hooks, hookCount, paidCount>>

\* ----------------------------------------- POST /api/payment/webhook
\* req.headers['x-razorpay-signature'] of a request without that header.
NoHeader == <<"(undefined)">>

\* payment.method of the payments of the model: a card payment, and one whose
\* entity carries no method.
MethodOf(n) == IF n = 1 THEN <<"card">> ELSE NoValue

\* The bodies the provider can deliver: payment.captured events of a first
\* payment whose order_id is the order of a stored enrollment or null and
\* whose notes carry no enrollmentId, one of a stored enrollment or an unknown
\* one; those of a second payment of an order, without notes; an event of
\* another type; a payment.captured event without payload; a body that is not
\* JSON.
CapturedBodies ==
  {b \in
     {[kind |-> "captured", pid |-> PaymentId(n), order |-> o, notes |-> e,
       method |-> MethodOf(n)] :
        n \in 1..2,
        o \in {NoValue} \cup {enrollments[x].razorpayOrderId : x \in DOMAIN enrollments},
        e \in {NoValue, GhostEnrollmentId} \cup DOMAIN enrollments} :
     b.pid = PaymentId(2) => b.notes = NoValue /\ b.order # NoValue}

OtherBodies ==
  {[kind |-> k, pid |-> NoValue, order |-> NoValue, notes |-> NoValue,
    method |-> NoValue] : k \in {"other", "noentity", "notjson"}}

Bodies == CapturedBodies \cup OtherBodies

ToUpper(s) ==
  [i \in DOMAIN s |-> IF IsHexChar(s[i]) THEN HexUpper[HexValue(s[i]) + 1] ELSE s[i]]

\* The headers sent with a body: none, the empty string, the hex digest under
\* the webhook secret and variations of it, the digest under the other secret.
HeadersFor(b) ==
  LET d == HmacHex(WebhookSecret, b) IN
  {NoHeader, <<>>, d, <<"sha256=">> \o d, ToUpper(d), d \o <<"z">>,
   d \o <<"0">>, <<d[1], "sha256=", d[2]>>, <<d[1]>>, <<"z", "z">>,
   <<"sha256=">>, HexEncode((Hmac(WebhookSecret, b) + 1) % 256),
   HmacHex(KeySecret, b)}

\* The headers of the specification of all three endpoints together: the
\* digest and, with an event of another type, none and the digest of another
\* body.
CoreHeadersFor(b) ==
  {HmacHex(WebhookSecret, b)} \cup
  (IF b.kind = "other"
     THEN {NoHeader, HexEncode((Hmac(WebhookSecret, b) + 1) % 256)}
     ELSE {})

\* The bodies of the specification of the signature check: events of one
\* payment that name no enrollment or a stored one, and the other kinds.
SigBodies ==
  {b \in Bodies :
     b.kind = "captured" =>
       /\ b.pid = PaymentId(1)
       /\ b.notes # GhostEnrollmentId
       /\ b.notes = NoValue \/ b.order = NoValue}

\* JSON.parse(body.toString()) of a body that is JSON.
ParseEvent(b) ==
  [event |-> IF b.kind = "other" THEN "payment.failed" ELSE "payment.captured",
   id |-> b.pid, order_id |-> b.order, notes |-> b.notes, method |-> b.method]

\* if (!signature) ... if (!isValidSignature) ...
SignatureAccepted(header, body) ==
  /\ header # NoHeader
  /\ header # <<>>
  /\ verifyWebhookSignature(body, header, WebhookSecret)

\* const updateData = {...}; doc(enrollmentId).update(updateData)
UpdateData(doc, header, event) ==
  [doc EXCEPT !.status = "Paid",
              !.razorpayPaymentId = event.id,
              !.paymentMethod = event.method,
              !.signature = header,
              !.rawWebhookEvents = arrayUnion(@, event)]

HasNotesEnrollmentId_Never(body) == FALSE

\* if (payment.notes && payment.notes.enrollmentId)
HasNotesEnrollmentId(body) == body.notes # NoValue

WebhookReceive_OtherFails(header, body) ==
  LET resp(status) ==
        /\ step' = StepRec("webhook", "receive", status,
                           [header |-> header, body |-> body], NoValue, NoValue)
        /\ UNCHANGED <<enrollments, uuidCount, orderCount, orderReqs, hooks,
                       hookCount, paidCount>>
  IN
  IF ~SignatureAccepted(header, body) THEN resp(400)
  ELSE IF body.kind \in {"notjson", "other", "noentity"} THEN resp(500)
  ELSE /\ hookCount < MaxHooks
       /\ InFlight < MaxInflight
       /\ hookCount' = hookCount + 1
       /\ hooks' = hooks \cup
            {[n |-> hookCount + 1, header |-> header, body |-> body,
              eid |-> NoValue,
              pc |-> IF HasNotesEnrollmentId(body) THEN "get" ELSE "query"]}
       /\ step' = StepRec("webhook", "receive", 0,
                          [header |-> header, body |-> body], NoValue, NoValue)
       /\ UNCHANGED <<enrollments, uuidCount, orderCount, orderReqs, paidCount>>

\* The handler up to its first await: the signature checks, JSON.parse, the
\* event type, and the read it starts.
WebhookReceive(header, body) ==
  LET resp(status) ==
        /\ step' = StepRec("webhook", "receive", status,
                           [header |-> header, body |-> body], NoValue, NoValue)
        /\ UNCHANGED <<enrollments, uuidCount, orderCount, orderReqs, hooks,
                       hookCount, paidCount>>
  IN
  IF ~SignatureAccepted(header, body) THEN resp(400)
  ELSE IF body.kind = "notjson" THEN resp(500)
  ELSE IF body.kind = "other" THEN resp(200)
  ELSE IF body.kind = "noentity" THEN resp(500)
  ELSE /\ hookCount < MaxHooks
       /\ InFlight < MaxInflight
       /\ hookCount' = hookCount + 1
       /\ hooks' = hooks \cup
            {[n |-> hookCount + 1, header |-> header, body |-> body,
              eid |-> NoValue,
              pc |-> IF HasNotesEnrollmentId(body) THEN "get" ELSE "query"]}
       /\ step' = StepRec("webhook", "receive", 0,
                          [header |-> header, body |-> body], NoValue, NoValue)
       /\ UNCHANGED <<enrollments, uuidCount, orderCount, orderReqs, paidCount>>

HookStep(h, phase, status, eid) ==
  StepRec("webhook", phase, status, [header |-> h.header, body |-> h.body],
          eid, h.body.order)

\* enrollmentDoc = await doc(payment.notes.enrollmentId).get()
WebhookGet(h, ok) ==
  /\ h \in hooks
  /\ h.pc = "get"
  /\ IF ~ok
       THEN /\ hooks' = hooks \ {h}
            /\ step' = HookStep(h, "get", 500, NoValue)
       ELSE IF Exists(h.body.notes)
         THEN /\ hooks' = (hooks \ {h}) \cup
                   {[h EXCEPT !.eid = h.body.notes, !.pc = "update"]}
              /\ step' = HookStep(h, "get", 0, h.body.notes)
         ELSE /\ hooks' = (hooks \ {h}) \cup {[h EXCEPT !.pc = "query"]}
              /\ step' = HookStep(h, "get", 0, NoValue)
  /\ UNCHANGED <<enrollments, uuidCount, orderCount, orderReqs, hookCount,
                 paidCount>>

\* where('razorpayOrderId', '==', orderId).limit(1).get(); 404 when empty
WebhookQuery(h, ok) ==
  /\ h \in hooks
  /\ h.pc = "query"
  /\ IF ~ok
       THEN /\ hooks' = hooks \ {h}
            /\ step' = HookStep(h, "query", 500, NoValue)
       ELSE IF EnrollmentsOfOrder(h.body.order) # {}
         THEN \E e \in EnrollmentsOfOrder(h.body.order) :
                /\ hooks' = (hooks \ {h}) \cup
                     {[h EXCEPT !.eid = e, !.pc = "update"]}
                /\ step' = HookStep(h, "query", 0, e)
         ELSE /\ hooks' = hooks \ {h}
              /\ step' = HookStep(h, "query", 404, NoValue)
  /\ UNCHANGED <<enrollments, uuidCount, orderCount, orderReqs, hookCount,
                 paidCount>>

TransitionsIn(pc, e) == IF e \in DOMAIN pc THEN pc[e] ELSE 0

PaidTransitions(e) == TransitionsIn(paidCount, e)

\* History: the document already holds what handling this delivery (the same
\* body under the same header) writes.
Redelivered(doc, header, event) ==
  /\ doc.status = "Paid"
  /\ doc.razorpayPaymentId = event.id
  /\ doc.paymentMethod = event.method
  /\ doc.signature = header
  /\ event \in Range(doc.rawWebhookEvents)

\* await doc(enrollmentId).update(updateData); res.json({status: 'ok'})
WebhookUpdate(h, ok) ==
  /\ h \in hooks
  /\ h.pc = "update"
  /\ hooks' = hooks \ {h}
  /\ IF ok /\ Exists(h.eid)
       THEN /\ enrollments' =
                 [enrollments EXCEPT
                    ![h.eid] = UpdateData(@, h.header, ParseEvent(h.body))]
            /\ paidCount' =
                 IF enrollments[h.eid].status = "Pending"
                   THEN (h.eid :> PaidTransitions(h.eid) + 1) @@ paidCount
                   ELSE paidCount
            /\ step' =
                 [HookStep(h, "update", 200, h.eid) EXCEPT
                    !.repeat = Redelivered(enrollments[h.eid], h.header,
                                           ParseEvent(h.body))]
       ELSE /\ step' = HookStep(h, "update", 500, h.eid)
            /\ UNCHANGED <<enrollments, paidCount>>
  /\ UNCHANGED <<uuidCount, orderCount, orderReqs, hookCount>>

\* ------------------------------------------ POST /api/payment/verify
SignMessage(orderId, paymentId) ==
  [kind |-> "sign", pid |-> paymentId, order |-> orderId]

VerifySignatures ==
  LET d == HmacHex(KeySecret, SignMessage(OrderId(1), PaymentId(1))) IN
  {NoValue, d, ToUpper(d), <<"sha256=">> \o d, d \o <<"0">>,
   HmacHex(WebhookSecret, SignMessage(OrderId(1), PaymentId(1))),
   HmacHex(KeySecret, SignMessage(OrderId(1), PaymentId(2)))}

VerifyRequests ==
  [razorpay_order_id : {NoValue, OrderId(1)},
   razorpay_payment_id : {NoValue, PaymentId(1), PaymentId(2)},
   razorpay_signature : VerifySignatures]

CoreVerifyRequests ==
  {r \in VerifyRequests :
     /\ r.razorpay_order_id = OrderId(1)
     /\ r.razorpay_payment_id = PaymentId(1)
     /\ r.razorpay_signature \in
          {NoValue, HmacHex(KeySecret, SignMessage(OrderId(1), PaymentId(1))),
           HmacHex(KeySecret, SignMessage(OrderId(1), PaymentId(2)))}}

VerifyStatus_Lenient(req) ==
  IF \/ req.razorpay_order_id = NoValue
     \/ req.razorpay_payment_id = NoValue
     \/ req.razorpay_signature = NoValue
    THEN 400
  ELSE IF HexDecode(req.razorpay_signature) =
            HexDecode(HmacHex(KeySecret,
                    SignMessage(req.razorpay_order_id, req.razorpay_payment_id)))
    THEN 200
  ELSE 400

\* The status the handler answers with.
VerifyStatus(req) ==
  IF \/ req.razorpay_order_id = NoValue
     \/ req.razorpay_payment_id = NoValue
     \/ req.razorpay_signature = NoValue
    THEN 400
  ELSE IF req.razorpay_signature =
            HmacHex(KeySecret,
                    SignMessage(req.razorpay_order_id, req.razorpay_payment_id))
    THEN 200
  ELSE 400

VerifyWrites_MarkPaid(req) ==
  [e \in DOMAIN enrollments |->
     IF VerifyStatus(req) = 200
          /\ enrollments[e].razorpayOrderId = req.razorpay_order_id
       THEN [enrollments[e] EXCEPT !.status = "Paid",
                                   !.razorpayPaymentId = req.razorpay_payment_id]
       ELSE enrollments[e]]

\* The writes of the handler to the enrollments collection: none.
VerifyWrites(req) == enrollments

VerifyReceive(req) ==
  /\ step' = StepRec("verify", "receive", VerifyStatus(req), req, NoValue, NoValue)
  /\ enrollments' = VerifyWrites(req)
  /\ UNCHANGED <<uuidCount, orderCount, orderReqs, hooks, hookCount, paidCount>>

\* --------------------------------------------- the Zoom call queue
PER_REQUEST_DELAY_MS == 400
\* Math.floor(Math.random() * 120)
WorkerJitterMs == 120
\* zoomApiCall(fn, maxRetries = 5)
maxRetries == 5
\* Math.min(1000 * Math.pow(2, attempt - 1), 8000) + Math.floor(Math.random() * 250)
BackoffBaseMs == 1000
BackoffCapMs == 8000
BackoffJitterMs == 250

\* The values of Math.floor(Math.random() * n) the model draws: both ends.
Jitters(n) == {0, n - 1}

Min(a, b) == IF a < b THEN a ELSE b

WorkerDelay_NoBase(jitter) == jitter

\* PER_REQUEST_DELAY_MS + Math.floor(Math.random() * 120)
WorkerDelay(jitter) == PER_REQUEST_DELAY_MS + jitter

Backoff(attempt, jitter) ==
  Min(BackoffBaseMs * 2 ^ (attempt - 1), BackoffCapMs) + jitter

\* The results of fn(): a response, a 429, another error.
Outcomes == {"ok", "429", "error"}

\* The calls made so far: a call not yet made has st = "none".
Submitted == {c \in DOMAIN calls : calls[c].st # "none"}

InFlightCalls == {c \in DOMAIN calls : calls[c].st = "inflight"}

QStep(op, c, gap, restart) == [op |-> op, call |-> c, gap |-> gap, restart |-> restart]

\* task() of work(): exec() adds one to attempt and calls fn(); it returns
\* nothing, so `await task()` does not wait for fn()'s promise, and work goes
\* on to setTimeout(work, PER_REQUEST_DELAY_MS + jitter).
\* `q` is the queue and `cs` the calls as the caller leaves them.
WorkOn(q, cs, jitter, restart) ==
  IF q = <<>>
    THEN /\ zoomWorkerRunning' = FALSE
         /\ workTimer' = <<>>
         /\ zoomTaskQueue' = q
         /\ calls' = cs
         /\ qstep' = QStep("stop", 0, 0, restart)
         /\ UNCHANGED <<sinceStart, startLog>>
    ELSE LET c == Head(q) IN
         /\ zoomWorkerRunning' = TRUE
         /\ zoomTaskQueue' = Tail(q)
         /\ calls' = [cs EXCEPT ![c].attempt = @ + 1, ![c].st = "inflight"]
         /\ workTimer' = <<WorkerDelay(jitter)>>
         /\ startLog' = IF cs[c].attempt = 0 THEN Append(startLog, c) ELSE startLog
         /\ sinceStart' = 0
         /\ qstep' = QStep("start", c, sinceStart, restart)

startZoomWorkerIfNeeded_NeverStarts(q, cs, jitter, op) ==
  /\ zoomTaskQueue' = q
  /\ calls' = cs
  /\ qstep' = QStep(op, 0, 0, FALSE)
  /\ UNCHANGED <<zoomWorkerRunning, workTimer, sinceStart, startLog>>

\* startZoomWorkerIfNeeded() after a push that left the queue `q`.
startZoomWorkerIfNeeded(q, cs, jitter, op) ==
  IF zoomWorkerRunning
    THEN /\ zoomTaskQueue' = q
         /\ calls' = cs
         /\ qstep' = QStep(op, 0, 0, FALSE)
         /\ UNCHANGED <<zoomWorkerRunning, workTimer, sinceStart, startLog>>
    ELSE WorkOn(q, cs, jitter, TRUE)

\* zoomApiCall(fn): zoomTaskQueue.push(exec); startZoomWorkerIfNeeded()
Submit(jitter) ==
  LET c == Cardinality(Submitted) + 1 IN
  /\ c <= MaxCalls
  /\ startZoomWorkerIfNeeded(
       Append(zoomTaskQueue, c), [calls EXCEPT ![c].st = "queued"],
       jitter, "submit")

\* The timer of setTimeout(work, ...) fires.
WorkerFire(jitter) ==
  /\ workTimer = <<0>>
  /\ WorkOn(zoomTaskQueue, calls, jitter, FALSE)

ShouldRetry_Never(outcome, attempt) == FALSE

ShouldRetry_Always(outcome, attempt) == attempt < maxRetries

\* (status === 429 || code === 429) && attempt < maxRetries
ShouldRetry(outcome, attempt) == outcome = "429" /\ attempt < maxRetries

\* fn()'s promise settles: .then(resolve), or the catch: a 429 before the
\* last attempt sets the retry timer, anything else rejects.
Complete(c, outcome, jitter) ==
  /\ c \in InFlightCalls
  /\ calls' =
       [calls EXCEPT ![c] =
          IF outcome = "ok"
            THEN [calls[c] EXCEPT !.st = "resolved", !.last = outcome]
          ELSE IF ShouldRetry(outcome, calls[c].attempt)
            THEN [calls[c] EXCEPT
                    !.st = "backoff", !.last = outcome,
                    !.timer = <<Backoff(calls[c].attempt, jitter)>>]
          ELSE [calls[c] EXCEPT !.st = "rejected", !.last = outcome]]
  /\ qstep' = QStep("complete", c, 0, FALSE)
  /\ UNCHANGED <<zoomTaskQueue, zoomWorkerRunning, workTimer, sinceStart, startLog>>

\* The retry timer fires: zoomTaskQueue.push(exec); startZoomWorkerIfNeeded().
\* The model keeps the delay the timer was set with and lets it fire at any
\* later time, as it lets an HTTP call take any time.
BackoffFire(c, jitter) ==
  /\ c \in DOMAIN calls
  /\ calls[c].st = "backoff"
  /\ startZoomWorkerIfNeeded(
       Append(zoomTaskQueue, c),
       [calls EXCEPT ![c].st = "queued", ![c].timer = <<>>],
       jitter, "requeue")

\* Time passes: up to the firing of the worker's timer, or 200 ms when it is
\* not due before.
Tick(d) ==
  /\ workTimer # <<>>
  /\ d > 0
  /\ d = workTimer[1] \/ (d = 200 /\ d < workTimer[1])
  /\ workTimer' = <<workTimer[1] - d>>
  /\ sinceStart' = Min(sinceStart + d, PER_REQUEST_DELAY_MS)
  /\ qstep' = QStep("tick", 0, 0, FALSE)
  /\ UNCHANGED <<zoomTaskQueue, zoomWorkerRunning, calls, startLog>>

QueueInit ==
  /\ zoomTaskQueue = <<>>
  /\ zoomWorkerRunning = FALSE
  /\ workTimer = <<>>
  /\ calls = [c \in 1..MaxCalls |->
                [attempt |-> 0, st |-> "none", timer |-> <<>>, last |-> "none"]]
  /\ sinceStart = PER_REQUEST_DELAY_MS
  /\ startLog = <<>>
  /\ qstep = QStep("init", 0, 0, FALSE)

\* ------------------------------------------------- the Zoom automation
\* The meeting id written with the fallback link.
Static == <<"static">>
\* A link that /your-static-zoom-link/i matches.
PlaceholderLink == <<"your-static-zoom-link">>
\* A link set by hand on a document.
ManualLink == <<"manual">>
\* A value of DEFAULT_ZOOM_LINK.
FallbackLink == <<"fallback">>
\* res.data.join_url and res.data.id of the n-th meeting; meeting 0 was
\* created before the server started.
JoinUrl(n) == <<"join", n>>
MeetingId(n) == <<"meeting", n>>
MessageId(n) == <<"msg", n>>

\* `Join Zoom: ${zoomLink}`
JoinText(zoomLink) == <<"Join Zoom: ", zoomLink>>

\* The document ids: one batch, one course.
BatchDoc == "b1"
CourseDoc == "c1"
KindOf(d) == IF d = BatchDoc THEN "batch" ELSE "course"

DocData(link, mid, msg) ==
  [zoomLink |-> link, zoomMeetingId |-> mid, zoomMessageId |-> msg]

\* A message as the automation writes it: the text and a timestamp in the
\* year 2000.
PinnedMessage(zoomLink) == [text |-> JoinText(zoomLink), past |-> TRUE]

\* The batch documents the server can find, each with the messages of the
\* batch: without link; with the fallback link; with a meeting and its pinned
\* message; with a link changed by hand after the message was pinned; with a
\* link set by hand and nothing else; with a pinned message whose timestamp
\* is not in the past.
BatchStates ==
  {[doc |-> DocData(NoValue, NoValue, NoValue), msgs |-> <<>>],
   [doc |-> DocData(FallbackLink, Static, MessageId(0)),
    msgs |-> MessageId(0) :> PinnedMessage(FallbackLink)],
   [doc |-> DocData(JoinUrl(0), MeetingId(0), MessageId(0)),
    msgs |-> MessageId(0) :> PinnedMessage(JoinUrl(0))],
   [doc |-> DocData(ManualLink, MeetingId(0), MessageId(0)),
    msgs |-> MessageId(0) :> PinnedMessage(JoinUrl(0))],
   [doc |-> DocData(ManualLink, NoValue, NoValue), msgs |-> <<>>],
   [doc |-> DocData(JoinUrl(0), MeetingId(0), MessageId(0)),
    msgs |-> MessageId(0) :> [text |-> JoinText(JoinUrl(0)), past |-> FALSE]]}

\* The course documents the server can find.
CourseStates ==
  {DocData(NoValue, NoValue, NoValue),
   DocData(FallbackLink, Static, NoValue),
   DocData(PlaceholderLink, NoValue, NoValue),
   DocData(JoinUrl(0), MeetingId(0), NoValue),
   DocData(ManualLink, NoValue, NoValue)}

\* (zoomMeetingId === 'static') || /your-static-zoom-link/i.test(zoomLink)
isStatic(data) ==
  data.zoomMeetingId = Static \/ data.zoomLink = PlaceholderLink

\* What validating a meeting meets: no token (credentials not set, or the
\* token request failed); the meeting; code 3001; HTTP 404; another failure.
ValidateOutcomes == {"notoken", "ok", "3001", "404", "error"}

\* isMeetingValid(meetingId), the provider answering `outcome`.
isMeetingValid(meetingId, outcome) ==
  IF meetingId = NoValue \/ meetingId = Static THEN FALSE
  ELSE IF outcome = "notoken" THEN FALSE
  ELSE IF outcome = "ok" THEN TRUE
  ELSE IF outcome \in {"3001", "404"} THEN FALSE
  ELSE TRUE

\* What creating a meeting meets: no token; the meeting created; a failure
\* of the request.
CreateOutcomes == {"notoken", "ok", "error"}

Meeting(joinUrl, id) == [joinUrl |-> joinUrl, id |-> id]
NoMeeting == Meeting(NoValue, NoValue)

createZoomMeeting_NoFallback(outcome, n) ==
  IF outcome = "ok" THEN Meeting(JoinUrl(n), MeetingId(n)) ELSE NoMeeting

createZoomMeeting_Reuse(outcome, n) ==
  IF outcome = "notoken"
    THEN IF fallback = NoValue THEN NoMeeting ELSE Meeting(fallback, Static)
  ELSE IF outcome = "ok" THEN Meeting(JoinUrl(0), MeetingId(0))
  ELSE Meeting(fallback, Static)

\* createZoomMeeting(topic), the provider answering `outcome`; n numbers the
\* meeting it creates.
createZoomMeeting(outcome, n) ==
  IF outcome = "notoken"
    THEN IF fallback = NoValue THEN NoMeeting ELSE Meeting(fallback, Static)
  ELSE IF outcome = "ok" THEN Meeting(JoinUrl(n), MeetingId(n))
  ELSE Meeting(fallback, Static)

\* An evaluation: the document and the data it was called with, where it
\* stands, its local zoomLink and zoomMessageId, the meeting it obtained, and
\* what happened to it: the result of validating ("none": not validated), the
\* answers of the provider, whether it wrote the link, the messages it added,
\* whether it ended in its catch.
NewEval(n, d, data, origin) ==
  [n |-> n, doc |-> d, origin |-> origin, data |-> data, pc |-> "start",
   zoomLink |-> data.zoomLink, zoomMessageId |-> data.zoomMessageId,
   meeting |-> NoMeeting, valid |-> "none", vout |-> "none", cout |-> "none",
   wrote |-> FALSE, added |-> 0, failed |-> FALSE]

\* Steps 2 and 3 of ensureBatchZoom: where the evaluation goes once the link
\* is settled.  ensureCourseZoom ends there.
PinPc(e) ==
  IF KindOf(e.doc) = "course" \/ e.zoomLink = NoValue THEN "done"
  ELSE IF e.zoomMessageId = NoValue THEN "add"
  ELSE "pinget"

\* The evaluation up to its first await.
FirstPc(d, data) ==
  IF KindOf(d) = "course"
    THEN IF data.zoomLink # NoValue /\ ~isStatic(data)
              /\ data.zoomMeetingId # NoValue
           THEN "validate" ELSE "create"
    ELSE IF data.zoomLink = NoValue \/ isStatic(data) THEN "create"
         ELSE IF data.zoomMeetingId # NoValue THEN "validate"
         ELSE PinPc(NewEval(0, d, data, "watch"))

SweepContinues_AbortOnFailure(failed) == ~failed

\* ensureCourseZoom and ensureBatchZoom catch what they throw, and validateAll
\* catches around each call: the loop goes on whatever the evaluation met.
SweepContinues(failed) == TRUE

\* The evaluation e has run to its next await, or to its end, as e2.
Advance(e, e2, op) ==
  /\ evals' = IF e2.pc = "done" THEN evals \ {e} ELSE (evals \ {e}) \cup {e2}
  /\ zstep' = [op |-> op, eval |-> e2, done |-> e2.pc = "done"]
  /\ sweep' =
       IF e2.pc = "done" /\ e2.origin = "sweep"
         THEN [sweep EXCEPT
                 !.cur = FALSE,
                 !.failed = @ \/ e2.failed,
                 !.st = IF SweepContinues(e2.failed) THEN @ ELSE "aborted"]
         ELSE sweep

\* An evaluation is called with the data of a snapshot.
EvalStart(d, data, origin) ==
  LET e == [NewEval(evalCount + 1, d, data, origin) EXCEPT
              !.pc = FirstPc(d, data),
              !.valid = IF KindOf(d) = "course" /\ data.zoomLink # NoValue
                             /\ ~isStatic(data) /\ data.zoomMeetingId = NoValue
                          THEN "no" ELSE "none"]
  IN  /\ evalCount' = evalCount + 1
      /\ evals' = evals \cup {e}
      /\ zstep' = [op |-> "start", eval |-> e, done |-> FALSE]

\* onSnapshot: a document was added or modified.
Watch(d) ==
  /\ watchCount < MaxWatch
  /\ watchCount' = watchCount + 1
  /\ EvalStart(d, docs[d], "watch")
  /\ UNCHANGED <<docs, messages, meetingCount, msgCount, fallback, sweep,
                 sweepCount>>

\* validateAll: both collections are read; a failed read ends the run in its
\* catch.
SweepStart(ok) ==
  /\ sweepCount < MaxSweeps
  /\ sweep.st \in {"idle", "done", "failed"}
  /\ sweepCount' = sweepCount + 1
  /\ sweep' = [st |-> IF ok THEN "running" ELSE "failed",
               todo |-> IF ok
                          THEN <<[doc |-> BatchDoc, data |-> docs[BatchDoc]],
                                 [doc |-> CourseDoc, data |-> docs[CourseDoc]]>>
                          ELSE <<>>,
               cur |-> FALSE, log |-> <<>>, failed |-> FALSE]
  /\ zstep' = [op |-> "sweep", eval |-> NewEval(0, BatchDoc, docs[BatchDoc], "sweep"),
               done |-> FALSE]
  /\ UNCHANGED <<docs, messages, meetingCount, msgCount, fallback, evals,
                 evalCount, watchCount>>

\* The loops of validateAll: the next document of the snapshot is evaluated
\* once the evaluation before it has ended; after the last the run ends.
SweepNext ==
  /\ sweep.st = "running"
  /\ ~sweep.cur
  /\ IF sweep.todo = <<>>
       THEN /\ sweep' = [sweep EXCEPT !.st = "done"]
            /\ zstep' = [zstep EXCEPT !.op = "sweepend", !.done = FALSE]
            /\ UNCHANGED <<evals, evalCount>>
       ELSE /\ sweep' = [sweep EXCEPT !.todo = Tail(@), !.cur = TRUE,
                                      !.log = Append(@, Head(sweep.todo).doc)]
            /\ EvalStart(Head(sweep.todo).doc, Head(sweep.todo).data, "sweep")
  /\ UNCHANGED <<docs, messages, meetingCount, msgCount, fallback, watchCount,
                 sweepCount>>

\* const valid = await isMeetingValid(zoomMeetingId)
EvalValidate(e, outcome) ==
  /\ e \in evals
  /\ e.pc = "validate"
  /\ LET valid == isMeetingValid(e.data.zoomMeetingId, outcome)
         e1 == [e EXCEPT !.vout = outcome,
                         !.valid = IF valid THEN "yes" ELSE "no"]
     IN  Advance(e, [e1 EXCEPT !.pc = IF valid THEN PinPc(e1) ELSE "create"],
                 "validate")
  /\ UNCHANGED <<docs, messages, meetingCount, msgCount, fallback, evalCount,
                 watchCount, sweepCount>>

\* const meeting = await createZoomMeeting(topic); if (meeting.joinUrl) ...
EvalCreate(e, outcome) ==
  /\ e \in evals
  /\ e.pc = "create"
  /\ LET meeting == createZoomMeeting(outcome, meetingCount + 1)
         e1 == [e EXCEPT !.cout = outcome, !.meeting = meeting]
     IN  Advance(e, [e1 EXCEPT !.pc = IF meeting.joinUrl # NoValue THEN "set"
                                      ELSE PinPc(e1)],
                 "create")
  /\ meetingCount' = IF outcome = "ok" THEN meetingCount + 1 ELSE meetingCount
  /\ UNCHANGED <<docs, messages, msgCount, fallback, evalCount, watchCount,
                 sweepCount>>

\* await ref.set({zoomLink, zoomMeetingId, zoomStartUrl}, {merge: true})
EvalSet(e, ok) ==
  /\ e \in evals
  /\ e.pc = "set"
  /\ IF ok
       THEN LET e1 == [e EXCEPT !.wrote = TRUE, !.zoomLink = e.meeting.joinUrl]
            IN  /\ docs' = [docs EXCEPT ![e.doc].zoomLink = e.meeting.joinUrl,
                                        ![e.doc].zoomMeetingId = e.meeting.id]
                /\ Advance(e, [e1 EXCEPT !.pc = PinPc(e1)], "set")
       ELSE /\ Advance(e, [e EXCEPT !.failed = TRUE, !.pc = "done"], "set")
            /\ UNCHANGED docs
  /\ UNCHANGED <<messages, meetingCount, msgCount, fallback, evalCount,
                 watchCount, sweepCount>>

\* const msgRef = await batchRef.collection('messages').add({...})
EvalAdd(e, ok) ==
  /\ e \in evals
  /\ e.pc = "add"
  /\ IF ok
       THEN /\ messages' = (MessageId(msgCount + 1) :> PinnedMessage(e.zoomLink))
                             @@ messages
            /\ msgCount' = msgCount + 1
            /\ Advance(e, [e EXCEPT !.added = @ + 1,
                                    !.zoomMessageId = MessageId(msgCount + 1),
                                    !.pc = "setmsgid"], "add")
       ELSE /\ Advance(e, [e EXCEPT !.failed = TRUE, !.pc = "done"], "add")
            /\ UNCHANGED <<messages, msgCount>>
  /\ UNCHANGED <<docs, meetingCount, fallback, evalCount, watchCount, sweepCount>>

\* await batchRef.set({ zoomMessageId: msgRef.id }, { merge: true })
EvalSetMsgId(e, ok) ==
  /\ e \in evals
  /\ e.pc = "setmsgid"
  /\ IF ok
       THEN /\ docs' = [docs EXCEPT ![e.doc].zoomMessageId = e.zoomMessageId]
            /\ Advance(e, [e EXCEPT !.pc = "pinget"], "setmsgid")
       ELSE /\ Advance(e, [e EXCEPT !.failed = TRUE, !.pc = "done"], "setmsgid")
            /\ UNCHANGED docs
  /\ UNCHANGED <<messages, meetingCount, msgCount, fallback, evalCount,
                 watchCount, sweepCount>>

\* currentText !== desired || !isPastPinned, of the snapshot of the message
NeedsPinUpdate(msgs, id, zoomLink) ==
  IF id \in DOMAIN msgs
    THEN msgs[id].text # JoinText(zoomLink) \/ ~msgs[id].past
    ELSE TRUE

\* const pinnedSnap = await pinnedRef.get()
EvalPinGet(e, ok) ==
  /\ e \in evals
  /\ e.pc = "pinget"
  /\ IF ok
       THEN Advance(e, [e EXCEPT !.pc =
                          IF NeedsPinUpdate(messages, e.zoomMessageId, e.zoomLink)
                            THEN "pinset" ELSE "done"], "pinget")
       ELSE Advance(e, [e EXCEPT !.failed = TRUE, !.pc = "done"], "pinget")
  /\ UNCHANGED <<docs, messages, meetingCount, msgCount, fallback, evalCount,
                 watchCount, sweepCount>>

PinWrite_AddsMessage(msgs, id, zoomLink) ==
  (MessageId(Cardinality(DOMAIN msgs) + 1) :> PinnedMessage(zoomLink)) @@ msgs

\* pinnedRef.set({text: desired, isPinned: true, timestamp}, {merge: true})
PinWrite(msgs, id, zoomLink) ==
  (id :> PinnedMessage(zoomLink)) @@ msgs

\* await pinnedRef.set(...)
EvalPinSet(e, ok) ==
  /\ e \in evals
  /\ e.pc = "pinset"
  /\ IF ok
       THEN /\ messages' = PinWrite(messages, e.zoomMessageId, e.zoomLink)
            /\ Advance(e, [e EXCEPT !.pc = "done"], "pinset")
       ELSE /\ Advance(e, [e EXCEPT !.failed = TRUE, !.pc = "done"], "pinset")
            /\ UNCHANGED messages
  /\ UNCHANGED <<docs, meetingCount, msgCount, fallback, evalCount, watchCount,
                 sweepCount>>

NoSweep == [st |-> "idle", todo |-> <<>>, cur |-> FALSE, log |-> <<>>,
            failed |-> FALSE]

\* The automation before startZoomAutomation has been called, with no
\* documents to look after.
ZoomIdle ==
  /\ docs = (BatchDoc :> DocData(NoValue, NoValue, NoValue))
              @@ (CourseDoc :> DocData(NoValue, NoValue, NoValue))
  /\ messages = <<>>
  /\ meetingCount = 0
  /\ msgCount = 0
  /\ fallback = NoValue
  /\ evals = {}
  /\ evalCount = 0
  /\ watchCount = 0
  /\ sweep = NoSweep
  /\ sweepCount = 0
  /\ zstep = [op |-> "init", eval |-> NewEval(0, BatchDoc, DocData(NoValue, NoValue, NoValue), "watch"),
              done |-> FALSE]

\* The server starts over a batch and a course as it finds them, with or
\* without DEFAULT_ZOOM_LINK.
ZoomInit ==
  /\ \E b \in BatchStates, c \in CourseStates :
       /\ docs = (BatchDoc :> b.doc) @@ (CourseDoc :> c)
       /\ messages = b.msgs
  /\ meetingCount = 0
  /\ msgCount = 0
  /\ fallback \in {NoValue, FallbackLink}
  /\ evals = {}
  /\ evalCount = 0
  /\ watchCount = 0
  /\ sweep = NoSweep
  /\ sweepCount = 0
  /\ zstep = [op |-> "init", eval |-> NewEval(0, BatchDoc, DocData(NoValue, NoValue, NoValue), "watch"),
              done |-> FALSE]

\* ---------------------------- the listeners and the server's own writes
\* The evaluations the listeners start in one chain, at most.
MaxLoopEvals == 8

\* A change of snapshot.docChanges(): the document and change.doc.data().
ChangeEvent(d, data) == [doc |-> d, data |-> data]

\* The change events the store delivers to onSnapshot after a step that left
\* the documents `after`: type 'modified' for the document the step changed,
\* none when the write changed no field.
Emitted(q, before, after) ==
  LET ds == {d \in DOMAIN after : after[d] # before[d]} IN
  IF ds = {} THEN q
  ELSE LET d == CHOOSE x \in ds : TRUE IN Append(q, ChangeEvent(d, after[d]))

\* Zoom while a chain runs: reachable with its credentials; token requests
\* failing or credentials unset; the token granted and the requests failing.
ProviderModes == {"up", "notoken", "error"}

\* What validating meets under a mode: with Zoom reachable, the meetings this
\* server created exist, and the one from before may have expired.
ValidateAnswers(mode, meetingId) ==
  IF mode = "up"
    THEN IF meetingId = MeetingId(0) THEN {"ok", "3001", "404"} ELSE {"ok"}
    ELSE {mode}

\* What creating a meeting meets under a mode.
CreateAnswers(mode) == IF mode = "up" THEN {"ok"} ELSE {mode}

\* The evaluation wrote nothing to the document: neither the link nor the id
\* of a pinned message.
NoDocWrite(e) == ~e.wrote /\ e.added = 0

\* The store and the record of a step of a chain: the change event of the
\* step's write, and the document when an evaluation of it ended without
\* writing to it.
Chained ==
  /\ changes' = Emitted(changes, docs, docs')
  /\ settled' = IF zstep'.done /\ NoDocWrite(zstep'.eval)
                  THEN settled \cup {zstep'.eval.doc} ELSE settled
  /\ UNCHANGED <<provider, client>>

\* The onSnapshot callback on the next change: ensureCourseZoom or
\* ensureBatchZoom is called with the data of the change, and not awaited.
Deliver ==
  /\ changes # <<>>
  /\ evalCount < MaxLoopEvals
  /\ changes' = Tail(changes)
  /\ watchCount' = watchCount + 1
  /\ EvalStart(Head(changes).doc, Head(changes).data, "watch")
  /\ UNCHANGED <<docs, messages, meetingCount, msgCount, fallback, sweep,
                 sweepCount, provider, settled, client>>

\* No listener is followed.
LoopIdle ==
  /\ changes = <<>>
  /\ provider = "up"
  /\ settled = {}

\* The listener of a collection has been attached and reports its document
\* as 'added'.
LoopStart ==
  /\ \E d \in {BatchDoc, CourseDoc} : changes = <<ChangeEvent(d, docs[d])>>
  /\ provider \in ProviderModes
  /\ settled = {}

\* ----------------- the browser: createEnrollmentAndPay, PaymentContext.jsx
\* const maxAttempts = 10
maxAttempts == 10

\* A run: where it stands, the enrollmentId it took from the answer of
\* /api/enrollment/create, the orderId it took from the answer of
\* /api/payment/order, its polls so far; history: the enrollment id of the
\* handler run that serves its order request.
ClientRec(pc, enrollmentId, orderId, attempts, handler) ==
  [pc |-> pc, enrollmentId |-> enrollmentId, orderId |-> orderId,
   attempts |-> attempts, handler |-> handler]

\* The id of an enrollment made by POST /api/enrollment/create: no id that
\* uuidv4() returns in the order handler.
CreatedEnrollmentId == EnrollmentId(MaxOrderReqs + 1)

\* The enrollmentId in the answer of POST /api/enrollment/create: of the
\* enrollment the endpoint made, or of a stored one it found.
CreateEnrollmentIds == {CreatedEnrollmentId} \cup DOMAIN enrollments

\* statusData.status in the answer of GET /api/enrollment/:id/status: the
\* status of that enrollment; the webhook handler, the one writer of Paid,
\* never resolves a delivery to the enrollment made by /api/enrollment/create.
EnrollmentStatus(id) ==
  IF id = CreatedEnrollmentId THEN "Pending"
  ELSE IF Exists(id) THEN enrollments[id].status
  ELSE NoValue

\* Step 1: const { enrollmentId, status, message } = await enrollmentResponse.json()
ClientCreateEnrollment ==
  /\ client.pc = "start"
  /\ \E id \in CreateEnrollmentIds :
       client' = [client EXCEPT !.pc = "created", !.enrollmentId = id]

\* Step 2: fetch(`${apiUrl}/api/payment/order`, ...) with paymentPayload; the
\* handler reads userId, courseId, amount, customerEmail of it, and not
\* its enrollmentId.
ClientOrder(req) ==
  /\ client.pc = "created"
  /\ OrderRequestValid(req)
  /\ OrderReceive(req)
  /\ client' = [client EXCEPT !.pc = "ordering", !.handler = step'.eid]

\* const { orderId, key, amount, currency } = await response.json(), or the
\* throw on !response.ok: the enrollmentId of the answer is not read.
ClientHears ==
  client' =
    IF client.pc = "ordering" /\ step'.op = "order"
         /\ step'.eid = client.handler /\ step'.status # 0
      THEN IF step'.status = 200
             THEN [client EXCEPT !.pc = "paying", !.orderId = step'.oid]
             ELSE [client EXCEPT !.pc = "failed"]
      ELSE client

\* The payment.captured events of the payment made in the checkout opened
\* with order_id: orderId.
ClientBodies ==
  {b \in CapturedBodies :
     /\ client.pc \in {"paying", "polling", "confirmed", "gaveup"}
     /\ b.pid = PaymentId(1)
     /\ b.order = client.orderId
     /\ b.notes \in {NoValue} \cup EnrollmentsOfOrder(client.orderId)}

\* options.handler: the checkout reports the payment, /api/payment/verify
\* is called with its ids and signature, and on verifyResponse.ok the polling
\* is started.
ClientVerify ==
  /\ client.pc = "paying"
  /\ LET req == [razorpay_order_id |-> client.orderId,
                 razorpay_payment_id |-> PaymentId(1),
                 razorpay_signature |->
                   HmacHex(KeySecret, SignMessage(client.orderId, PaymentId(1)))]
     IN  /\ VerifyReceive(req)
         /\ client' = [client EXCEPT !.pc = IF VerifyStatus(req) = 200
                                              THEN "polling" ELSE "failed"]

\* pollStatus: fetch(`${apiUrl}/api/enrollment/${enrollmentId}/status`)
ClientPoll ==
  /\ client.pc = "polling"
  /\ client' =
       IF EnrollmentStatus(client.enrollmentId) = "Paid"
         THEN [client EXCEPT !.pc = "confirmed"]
       ELSE IF client.attempts + 1 < maxAttempts
         THEN [client EXCEPT !.attempts = @ + 1]
       ELSE [client EXCEPT !.attempts = @ + 1, !.pc = "gaveup"]

\* No run of createEnrollmentAndPay.
ClientIdle == client = ClientRec("none", NoValue, NoValue, 0, NoValue)

\* createEnrollmentAndPay is called.
ClientStart == client = ClientRec("start", NoValue, NoValue, 0, NoValue)

\* ---------------------------------------------------- specifications
PayInit ==
  /\ enrollments = <<>>
  /\ uuidCount = 0
  /\ orderCount = 0
  /\ orderReqs = {}
  /\ hooks = {}
  /\ hookCount = 0
  /\ step = StepRec("init", "init", 0, NoValue, NoValue, NoValue)
  /\ paidCount = <<>>

OrderSteps ==
  \/ \E o \in orderReqs, ok \in BOOLEAN :
       OrderProvider(o, ok) /\ UNCHANGED <<queueVars, zoomVars, loopVars, clientVars>>
  \/ \E o \in orderReqs, ok \in BOOLEAN :
       OrderSet(o, ok) /\ UNCHANGED <<queueVars, zoomVars, loopVars, clientVars>>

HookSteps ==
  \/ \E h \in hooks, ok \in BOOLEAN : WebhookGet(h, ok) /\ UNCHANGED <<queueVars, zoomVars, loopVars, clientVars>>
  \/ \E h \in hooks, ok \in BOOLEAN : WebhookQuery(h, ok) /\ UNCHANGED <<queueVars, zoomVars, loopVars, clientVars>>
  \/ \E h \in hooks, ok \in BOOLEAN : WebhookUpdate(h, ok) /\ UNCHANGED <<queueVars, zoomVars, loopVars, clientVars>>

vars == <<payVars, queueVars, zoomVars, loopVars, clientVars>>

Init == PayInit /\ QueueInit /\ ZoomIdle /\ LoopIdle /\ ClientIdle

\* The three payment endpoints together.
Next ==
  \/ \E req \in CoreOrderRequests : OrderReceive(req) /\ UNCHANGED <<queueVars, zoomVars, loopVars, clientVars>>
  \/ OrderSteps
  \/ \E b \in Bodies : \E hd \in CoreHeadersFor(b) :
       WebhookReceive(hd, b) /\ UNCHANGED <<queueVars, zoomVars, loopVars, clientVars>>
  \/ HookSteps
  \/ \E req \in CoreVerifyRequests : VerifyReceive(req) /\ UNCHANGED <<queueVars, zoomVars, loopVars, clientVars>>

Spec == Init /\ [][Next]_vars

\* Order creation alone, over all request bodies.
OrderNext ==
  \/ \E req \in OrderRequests : OrderReceive(req) /\ UNCHANGED <<queueVars, zoomVars, loopVars, clientVars>>
  \/ OrderSteps

SpecOrder == Init /\ [][OrderNext]_vars

\* The webhook over all headers, with one order created by a complete request.
SigNext ==
  \/ \E req \in CoreOrderRequests :
       /\ OrderRequestValid(req)
       /\ uuidCount = 0
       /\ OrderReceive(req)
       /\ UNCHANGED <<queueVars, zoomVars, loopVars, clientVars>>
  \/ OrderSteps
  \/ \E b \in SigBodies : \E hd \in HeadersFor(b) :
       WebhookReceive(hd, b) /\ UNCHANGED <<queueVars, zoomVars, loopVars, clientVars>>
  \/ HookSteps

SpecSig == Init /\ [][SigNext]_vars

\* The legacy verify endpoint over all its request bodies, beside order
\* creation.
VerifyNext ==
  \/ \E req \in CoreOrderRequests : OrderReceive(req) /\ UNCHANGED <<queueVars, zoomVars, loopVars, clientVars>>
  \/ OrderSteps
  \/ \E req \in VerifyRequests : VerifyReceive(req) /\ UNCHANGED <<queueVars, zoomVars, loopVars, clientVars>>

SpecVerify == Init /\ [][VerifyNext]_vars

\* The timer of the worker fires.
WorkerTimerFires ==
  \E j \in Jitters(WorkerJitterMs) : WorkerFire(j) /\ UNCHANGED <<payVars, zoomVars, loopVars, clientVars>>

\* The retry timer of a call fires.
RetryTimerFires(c) ==
  \E j \in Jitters(WorkerJitterMs) : BackoffFire(c, j) /\ UNCHANGED <<payVars, zoomVars, loopVars, clientVars>>

TimePasses ==
  \E d \in {200} \cup Range(workTimer) : Tick(d) /\ UNCHANGED <<payVars, zoomVars, loopVars, clientVars>>

\* An HTTP call settles.
Settle(c) ==
  \E o \in Outcomes, j \in Jitters(BackoffJitterMs) :
    Complete(c, o, j) /\ UNCHANGED <<payVars, zoomVars, loopVars, clientVars>>

\* The call queue.
QueueNext ==
  \/ \E j \in Jitters(WorkerJitterMs) : Submit(j) /\ UNCHANGED <<payVars, zoomVars, loopVars, clientVars>>
  \/ \E c \in DOMAIN calls : Settle(c)
  \/ WorkerTimerFires
  \/ \E c \in DOMAIN calls : RetryTimerFires(c)
  \/ TimePasses

SpecQueue == Init /\ [][QueueNext]_vars

\* The call queue with its timers firing, time passing and every HTTP call
\* settling.
FairSpecQueue ==
  /\ SpecQueue
  /\ WF_vars(WorkerTimerFires)
  /\ WF_vars(TimePasses)
  /\ \A c \in 1..MaxCalls : WF_vars(RetryTimerFires(c)) /\ WF_vars(Settle(c))

\* The Zoom automation: the watchers, validateAll and the evaluations.
ZoomNext ==
  \/ \E d \in {BatchDoc, CourseDoc} : Watch(d) /\ UNCHANGED <<payVars, queueVars, loopVars, clientVars>>
  \/ \E ok \in BOOLEAN : SweepStart(ok) /\ UNCHANGED <<payVars, queueVars, loopVars, clientVars>>
  \/ SweepNext /\ UNCHANGED <<payVars, queueVars, loopVars, clientVars>>
  \/ \E e \in evals, o \in ValidateOutcomes :
       EvalValidate(e, o) /\ UNCHANGED <<payVars, queueVars, loopVars, clientVars>>
  \/ \E e \in evals, o \in CreateOutcomes :
       EvalCreate(e, o) /\ UNCHANGED <<payVars, queueVars, loopVars, clientVars>>
  \/ \E e \in evals, ok \in BOOLEAN : EvalSet(e, ok) /\ UNCHANGED <<payVars, queueVars, loopVars, clientVars>>
  \/ \E e \in evals, ok \in BOOLEAN : EvalAdd(e, ok) /\ UNCHANGED <<payVars, queueVars, loopVars, clientVars>>
  \/ \E e \in evals, ok \in BOOLEAN :
       EvalSetMsgId(e, ok) /\ UNCHANGED <<payVars, queueVars, loopVars, clientVars>>
  \/ \E e \in evals, ok \in BOOLEAN :
       EvalPinGet(e, ok) /\ UNCHANGED <<payVars, queueVars, loopVars, clientVars>>
  \/ \E e \in evals, ok \in BOOLEAN :
       EvalPinSet(e, ok) /\ UNCHANGED <<payVars, queueVars, loopVars, clientVars>>

ZoomSpecInit == PayInit /\ QueueInit /\ ZoomInit /\ LoopIdle /\ ClientIdle

SpecZoom == ZoomSpecInit /\ [][ZoomNext]_vars

\* The listeners following the server's own writes: the evaluations of one
\* document, each started by a change event, with the store accepting every
\* write.
LoopNext ==
  \/ Deliver /\ UNCHANGED <<payVars, queueVars>>
  \/ \E e \in evals : \E o \in ValidateAnswers(provider, e.data.zoomMeetingId) :
       EvalValidate(e, o) /\ Chained /\ UNCHANGED <<payVars, queueVars>>
  \/ \E e \in evals : \E o \in CreateAnswers(provider) :
       EvalCreate(e, o) /\ Chained /\ UNCHANGED <<payVars, queueVars>>
  \/ \E e \in evals : EvalSet(e, TRUE) /\ Chained /\ UNCHANGED <<payVars, queueVars>>
  \/ \E e \in evals : EvalAdd(e, TRUE) /\ Chained /\ UNCHANGED <<payVars, queueVars>>
  \/ \E e \in evals : EvalSetMsgId(e, TRUE) /\ Chained /\ UNCHANGED <<payVars, queueVars>>
  \/ \E e \in evals : EvalPinGet(e, TRUE) /\ Chained /\ UNCHANGED <<payVars, queueVars>>
  \/ \E e \in evals : EvalPinSet(e, TRUE) /\ Chained /\ UNCHANGED <<payVars, queueVars>>

LoopSpecInit == PayInit /\ QueueInit /\ ZoomInit /\ LoopStart /\ ClientIdle

SpecLoop == LoopSpecInit /\ [][LoopNext]_vars

\* A run of createEnrollmentAndPay against the payment endpoints, beside the
\* order requests of others.
ClientNext ==
  \/ ClientCreateEnrollment /\ UNCHANGED <<payVars, queueVars, zoomVars, loopVars>>
  \/ \E req \in CoreOrderRequests :
       ClientOrder(req) /\ UNCHANGED <<queueVars, zoomVars, loopVars>>
  \/ \E req \in CoreOrderRequests :
       OrderReceive(req) /\ UNCHANGED <<queueVars, zoomVars, loopVars, clientVars>>
  \/ \E o \in orderReqs, ok \in BOOLEAN :
       OrderProvider(o, ok) /\ ClientHears /\ UNCHANGED <<queueVars, zoomVars, loopVars>>
  \/ \E o \in orderReqs, ok \in BOOLEAN :
       OrderSet(o, ok) /\ ClientHears /\ UNCHANGED <<queueVars, zoomVars, loopVars>>
  \/ ClientVerify /\ UNCHANGED <<queueVars, zoomVars, loopVars>>
  \/ \E b \in ClientBodies :
       /\ WebhookReceive(HmacHex(WebhookSecret, b), b)
       /\ UNCHANGED <<queueVars, zoomVars, loopVars, clientVars>>
  \/ HookSteps
  \/ ClientPoll /\ UNCHANGED <<payVars, queueVars, zoomVars, loopVars>>

ClientSpecInit == PayInit /\ QueueInit /\ ZoomIdle /\ LoopIdle /\ ClientStart

SpecClient == ClientSpecInit /\ [][ClientNext]_vars

\* ------------------------------------------------------------- claims
WebhookUpdated == step.op = "webhook" /\ step.phase = "update" /\ step.status = 200

\* C1: handling a verified payment.captured delivery leaves its enrollment
\* Paid with the event exactly once in rawWebhookEvents, and handling the same
\* delivery (same body, same header) again changes no field of the enrollment
\* and makes no further Pending -> Paid transition.
C1_RedeliveryIdempotent ==
  [][WebhookUpdated' =>
       LET e == step'.eid
           ev == ParseEvent(step'.req.body)
       IN  /\ enrollments'[e].status = "Paid"
           /\ Count(ev, enrollments'[e].rawWebhookEvents) = 1
           /\ Redelivered(enrollments[e], step'.req.header, ev) =>
                /\ enrollments'[e] = enrollments[e]
                /\ paidCount' = paidCount
           /\ TransitionsIn(paidCount', e) = 1]_vars

\* C1 witness: a delivery was handled a second time.
C1_Witness == WebhookUpdated /\ step.repeat

\* C2: an enrollment that is Paid stays Paid in every step of every handler,
\* and no enrollment makes more than one Pending -> Paid transition.
C2_PaidIsTerminal ==
  [][\A e \in DOMAIN enrollments :
       /\ e \in DOMAIN enrollments'
       /\ enrollments[e].status = "Paid" => enrollments'[e].status = "Paid"
       /\ TransitionsIn(paidCount', e) <= 1]_vars

\* C2 witness: an order was stored after another enrollment became Paid, and
\* a Paid enrollment was updated by a further delivery.
C2_Witness ==
  /\ WebhookUpdated
  /\ ~step.repeat
  /\ Cardinality(DOMAIN enrollments) = 2
  /\ Len(enrollments[step.eid].rawWebhookEvents) = 2
  /\ \E e \in DOMAIN enrollments : enrollments[e].status = "Pending"

\* C4: the verify handler changes no enrollment; an order handler changes no
\* existing enrollment; only an order handler adds an enrollment and only a
\* webhook handler changes one.
C4_OnlyWebhookMutates ==
  [][/\ step'.op = "verify" => enrollments' = enrollments
     /\ step'.op = "order" =>
          \A e \in DOMAIN enrollments :
            e \in DOMAIN enrollments' /\ enrollments'[e] = enrollments[e]
     /\ DOMAIN enrollments' # DOMAIN enrollments => step'.op = "order"
     /\ \A e \in DOMAIN enrollments \cap DOMAIN enrollments' :
          enrollments'[e] # enrollments[e] => step'.op = "webhook"]_vars

\* C4 witness: a verify request with the right signature was answered 200
\* while the enrollment of its order is Pending.
C4_Witness ==
  /\ step.op = "verify"
  /\ step.status = 200
  /\ \E e \in DOMAIN enrollments :
       /\ enrollments[e].razorpayOrderId = step.req.razorpay_order_id
       /\ enrollments[e].status = "Pending"

\* C5: a payment.captured handler updates the enrollment named by
\* payment.notes.enrollmentId when that document exists, otherwise the one
\* whose razorpayOrderId is payment.order_id; it answers 404 exactly when
\* neither exists (store failures aside), and then changes nothing.
C5_Resolution ==
  [][(step'.op = "webhook" /\ step'.phase \in {"get", "query", "update"}) =>
       LET b == step'.req.body
           byNotes == b.notes # NoValue /\ b.notes \in DOMAIN enrollments
           byOrder == EnrollmentsOfOrder(b.order)
       IN  /\ step'.status = 404 =>
                ~byNotes /\ byOrder = {} /\ enrollments' = enrollments
           /\ (~byNotes /\ byOrder = {}) => step'.status \in {0, 404, 500}
           /\ (~byNotes /\ byOrder = {} /\ step'.phase = "query") =>
                step'.status \in {404, 500}
           /\ step'.status = 200 =>
                /\ IF byNotes THEN step'.eid = b.notes ELSE step'.eid \in byOrder
                /\ enrollments'[step'.eid] # enrollments[step'.eid]
                     \/ step'.repeat
                /\ \A e \in DOMAIN enrollments \ {step'.eid} :
                     enrollments'[e] = enrollments[e]]_vars

\* C5 witness: the notes name a document that does not exist and the
\* enrollment was found by its order id.
C5_Witness ==
  /\ WebhookUpdated
  /\ step.req.body.notes = GhostEnrollmentId
  /\ enrollments[step.eid].razorpayOrderId = step.req.body.order

\* The header without its optional "sha256=" prefix.
StripPrefix(header) ==
  IF header # <<>> /\ Head(header) = "sha256=" THEN Tail(header) ELSE header

\* The header is the hex HMAC-SHA256 of the body under the webhook secret.
HeaderIsDigest(header, body) ==
  header # NoHeader /\ StripPrefix(header) = HmacHex(WebhookSecret, body)

\* C3: a webhook request whose signature header is missing or is not the
\* HMAC-SHA256 of the raw body under the webhook secret is answered 400 and
\* changes no enrollment.
C3_MismatchRejected ==
  [][(step'.op = "webhook" /\ step'.phase = "receive"
        /\ ~HeaderIsDigest(step'.req.header, step'.req.body)) =>
       /\ step'.status = 400
       /\ enrollments' = enrollments
       /\ hooks' = hooks]_vars

\* The amount of a request is an integer: a number without fraction, or a
\* string of decimal digits.
IsIntegerAmount(a) ==
  /\ a # NoValue
  /\ IF a[1] = "num" THEN a[3] = 0
     ELSE a[2] # <<>> /\ \A i \in DOMAIN a[2] : IsDigit(a[2][i])

IntegerAmount(a) == IF a[1] = "num" THEN a[2] ELSE DecimalValue(a[2])

\* C9: a request with userId, courseId, amount and customerEmail present is
\* never answered 400, and a 200 response names a stored enrollment that is
\* Pending, holds the returned order id, and holds the integer amount of the
\* request.
C9_OrderPersisted ==
  step.op = "order" =>
    /\ OrderRequestValid(step.req) => step.status # 400
    /\ step.status = 200 =>
         /\ step.eid \in DOMAIN enrollments
         /\ enrollments[step.eid].enrollmentId = step.eid
         /\ enrollments[step.eid].status = "Pending"
         /\ enrollments[step.eid].razorpayOrderId = step.oid
         /\ step.oid # NoValue
         /\ IsIntegerAmount(step.req.amount) =>
              enrollments[step.eid].amount = IntegerAmount(step.req.amount)

\* C9 witness: the order of a request whose amount is the string "50" was
\* stored and answered 200.
C9_Witness ==
  /\ step.op = "order"
  /\ step.status = 200
  /\ step.req.amount = <<"str", <<"5", "0">>>>
  /\ Cardinality(DOMAIN enrollments) = 2

AnyRequiredMissing(req) ==
  \/ req.userId = NoValue
  \/ req.courseId = NoValue
  \/ req.amount = NoValue
  \/ req.customerEmail = NoValue

\* C10: a CreateOrder request without userId, courseId, amount or
\* customerEmail is answered 400 at once, creates no provider order and
\* stores no enrollment.
C10_MissingFieldRejected ==
  [][(step'.op = "order" /\ step'.phase = "receive"
        /\ AnyRequiredMissing(step'.req)) =>
       /\ step'.status = 400
       /\ orderCount' = orderCount
       /\ enrollments' = enrollments
       /\ orderReqs' = orderReqs]_vars

\* C10 witness: a request complete but for customerEmail was answered 400
\* while an enrollment is stored.
C10_Witness ==
  /\ step.op = "order"
  /\ step.status = 400
  /\ step.req.customerEmail = NoValue
  /\ Truthy(step.req.userId) /\ Truthy(step.req.courseId)
  /\ AmountTruthy(step.req.amount)
  /\ DOMAIN enrollments # {}

\* C6: at no time are two calls submitted through zoomApiCall in flight at
\* once.
C6_OneInFlight == Cardinality(InFlightCalls) <= 1

\* No call has failed: no call got an error, the last time or (having been
\* tried again) before.
NoFailures ==
  \A c \in DOMAIN calls : calls[c].last \in {"none", "ok"} /\ calls[c].attempt <= 1

RECURSIVE StartsUpTo(_)
StartsUpTo(n) == IF n = 0 THEN 0 ELSE calls[n].attempt + StartsUpTo(n - 1)

\* The number of calls of fn() started so far.
Starts == StartsUpTo(MaxCalls)

Settled(c) == calls[c].st \in {"resolved", "rejected"}

\* C8: a call resolves exactly when it gets a response; after a 429 it is tried again
\* while it has been attempted fewer than maxRetries times, and rejected with
\* the 429 only at attempt maxRetries; every call submitted is in the end
\* resolved or rejected.
C8_RetryOutcome ==
  /\ [](\A c \in 1..MaxCalls :
          /\ calls[c].attempt <= maxRetries
          /\ calls[c].st = "resolved" <=> calls[c].last = "ok"
          /\ calls[c].st = "backoff" =>
               calls[c].last = "429" /\ calls[c].attempt < maxRetries
          /\ (calls[c].st = "rejected" /\ calls[c].last = "429") =>
               calls[c].attempt = maxRetries)
  /\ \A c \in 1..MaxCalls : (calls[c].st # "none") ~> Settled(c)

C8_Witness ==
  /\ calls[1].st = "resolved" /\ calls[1].attempt = 3
  /\ calls[2].st = "rejected" /\ calls[2].last = "429"
  /\ calls[2].attempt = maxRetries

\* C11: a CreateOrder request that passed validation ends with 200 or 500;
\* with 200 a provider order was created and the Pending enrollment of the
\* request is stored; with 500 (the provider call or the store write failed)
\* no enrollment of the request is stored; an enrollment appears in the store
\* only with a 200.
C11_AllOrNothing ==
  [][/\ (step'.op = "order" /\ step'.phase \in {"provider", "set"}) =>
          /\ step'.status \in {0, 200, 500}
          /\ step'.status = 200 =>
               /\ step'.oid # NoValue
               /\ orderCount' >= 1
               /\ step'.eid \in DOMAIN enrollments'
               /\ enrollments'[step'.eid].status = "Pending"
               /\ enrollments'[step'.eid].razorpayOrderId = step'.oid
          /\ step'.status = 500 =>
               /\ step'.eid \notin DOMAIN enrollments'
               /\ enrollments' = enrollments
     /\ DOMAIN enrollments' # DOMAIN enrollments =>
          step'.op = "order" /\ step'.status = 200]_vars

\* C11 witness: the store write of a request failed after its provider order
\* was created, while the enrollment of another request is stored.
C11_Witness ==
  /\ step.op = "order"
  /\ step.phase = "set"
  /\ step.status = 500
  /\ step.oid # NoValue
  /\ Cardinality(DOMAIN enrollments) = 1

\* C12: a webhook request is accepted exactly when its header, without an
\* optional "sha256=" prefix, is the hex HMAC-SHA256 of the body under the
\* webhook secret; every other header is answered 400.
C12_AcceptedExactlyDigest ==
  [][(step'.op = "webhook" /\ step'.phase = "receive") =>
       (step'.status # 400 <=>
          HeaderIsDigest(step'.req.header, step'.req.body))]_vars

Malformed(body) == body.kind \in {"notjson", "noentity"}

\* C13: a webhook request with a verified signature whose body is not JSON,
\* or is a payment.captured event without payload.payment.entity, is answered
\* with a 4xx status and changes no enrollment.
C13_MalformedAnswered4xx ==
  [][(step'.op = "webhook" /\ step'.phase = "receive"
        /\ SignatureAccepted(step'.req.header, step'.req.body)
        /\ Malformed(step'.req.body)) =>
       /\ step'.status \in 400..499
       /\ enrollments' = enrollments]_vars

\* C14: a webhook request with a verified signature whose event is of another
\* type than payment.captured is answered 200 and changes no enrollment and
\* starts no store operation.
C14_OtherEventAcknowledged ==
  [][(step'.op = "webhook" /\ step'.phase = "receive"
        /\ SignatureAccepted(step'.req.header, step'.req.body)
        /\ step'.req.body.kind = "other") =>
       /\ ParseEvent(step'.req.body).event # "payment.captured"
       /\ step'.status = 200
       /\ enrollments' = enrollments
       /\ hooks' = hooks]_vars

\* C14 witness: an event of another type was acknowledged while a Pending
\* enrollment is stored.
C14_Witness ==
  /\ step.op = "webhook"
  /\ step.status = 200
  /\ step.req.body.kind = "other"
  /\ \E e \in DOMAIN enrollments : enrollments[e].status = "Pending"

\* The three fields are present and razorpay_signature is the hex digest of
\* razorpay_order_id + "|" + razorpay_payment_id under the key secret.
VerifyMatches(req) ==
  /\ req.razorpay_order_id # NoValue
  /\ req.razorpay_payment_id # NoValue
  /\ req.razorpay_signature # NoValue
  /\ req.razorpay_signature =
       HmacHex(KeySecret,
               SignMessage(req.razorpay_order_id, req.razorpay_payment_id))

\* C15: the verify endpoint answers 200 exactly when the signature is the hex
\* HMAC-SHA256 of order id, "|" and payment id under the key secret, and 400
\* for every other signature and when a field is missing.
C15_VerifyExact ==
  step.op = "verify" =>
    /\ step.status = 200 <=> VerifyMatches(step.req)
    /\ ~VerifyMatches(step.req) => step.status = 400

\* C15 witness: a signature that is not the digest but decodes to the
\* digest's bytes (upper case, a trailing digit) was answered 400.
C15_Witness ==
  /\ step.op = "verify"
  /\ step.status = 400
  /\ step.req.razorpay_order_id # NoValue
  /\ step.req.razorpay_payment_id # NoValue
  /\ step.req.razorpay_signature # NoValue
  /\ step.req.razorpay_signature #
       HmacHex(KeySecret, SignMessage(step.req.razorpay_order_id,
                                      step.req.razorpay_payment_id))
  /\ HexDecode(step.req.razorpay_signature) =
       HexDecode(HmacHex(KeySecret, SignMessage(step.req.razorpay_order_id,
                                                step.req.razorpay_payment_id)))

\* An evaluation has ended without a rejected store operation.
EvalEnded == zstep.done /\ ~zstep.eval.failed

C17_PinnedSynced ==
  (EvalEnded /\ KindOf(zstep.eval.doc) = "batch"
     /\ zstep.eval.data.zoomMessageId # NoValue
     /\ zstep.eval.zoomLink # NoValue) =>
    LET e == zstep.eval IN
    /\ e.zoomMessageId = e.data.zoomMessageId
    /\ e.zoomMessageId \in DOMAIN messages
    /\ messages[e.zoomMessageId].text = JoinText(e.zoomLink)
    /\ e.added = 0

\* C17 witness: the evaluation replaced the link of a batch with a pinned
\* message, and the message holds the new link.
C17_Witness ==
  /\ EvalEnded
  /\ zstep.eval.doc = BatchDoc
  /\ zstep.eval.data.zoomMessageId = MessageId(0)
  /\ zstep.eval.wrote
  /\ zstep.eval.zoomLink = JoinUrl(1)
  /\ zstep.op = "pinset"
  /\ messages[MessageId(0)].text = JoinText(JoinUrl(1))
  /\ DOMAIN messages = {MessageId(0)}

\* C18: isMeetingValid of a real meeting id returns false only when the
\* provider answers code 3001 or HTTP 404.
C18_FailOpen ==
  (zstep.op = "validate" /\ zstep.eval.valid = "no") =>
    zstep.eval.vout \in {"3001", "404"}

\* The provider was unreachable or misconfigured for the evaluation of a
\* document without link, and a fallback link is configured.
FallbackCase(e) ==
  /\ e.data.zoomLink = NoValue
  /\ e.cout \in {"notoken", "error"}
  /\ fallback # NoValue

\* C19 (store failures aside): in the fallback case the evaluation obtains
\* and writes the fallback link with zoomMeetingId 'static'; an evaluation of
\* a document whose zoomMeetingId is 'static' goes to create a meeting without
\* validating, and with the provider reachable writes a meeting id that is not
\* 'static'.
C19_FallbackAndReplace ==
  LET e == zstep.eval IN
  /\ (zstep.op = "create" /\ FallbackCase(e)) =>
       e.pc = "set" /\ e.meeting = Meeting(fallback, Static)
  /\ (zstep.op = "set" /\ e.wrote /\ FallbackCase(e)) =>
       /\ docs[e.doc].zoomLink = fallback
       /\ docs[e.doc].zoomMeetingId = Static
  /\ (zstep.op = "start" /\ e.data.zoomMeetingId = Static) => e.pc = "create"
  /\ (zstep.op \notin {"init", "sweep", "sweepend"}
        /\ e.data.zoomMeetingId = Static) => e.valid = "none"
  /\ (zstep.op = "create" /\ e.data.zoomMeetingId = Static /\ e.cout = "ok") =>
       e.pc = "set"
  /\ (zstep.op = "set" /\ e.wrote /\ e.data.zoomMeetingId = Static
        /\ e.cout = "ok") =>
       /\ docs[e.doc].zoomMeetingId # Static
       /\ docs[e.doc].zoomMeetingId # NoValue
       /\ docs[e.doc].zoomLink # e.data.zoomLink

\* C19 witness: the batch had no link, got the fallback link and a pinned
\* message for it, and a later evaluation replaced the fallback link with a
\* meeting.
C19_Witness ==
  /\ zstep.op = "set"
  /\ zstep.eval.wrote
  /\ zstep.eval.cout = "ok"
  /\ zstep.eval.doc = BatchDoc
  /\ zstep.eval.data.zoomMeetingId = Static
  /\ MessageId(1) \in DOMAIN messages
  /\ messages[MessageId(1)].text = JoinText(FallbackLink)
  /\ docs[BatchDoc].zoomMeetingId = MeetingId(1)

\* C20: a run of validateAll is never ended by an evaluation, whatever the
\* evaluation met; when it ends, the batch and the course of its snapshot
\* have both been evaluated, in that order; it fails only when reading the
\* collections fails, in its own catch.
C20_SweepNeverAborted ==
  /\ sweep.st \in {"idle", "running", "done", "failed"}
  /\ sweep.st = "done" => sweep.log = <<BatchDoc, CourseDoc>>
  /\ sweep.st = "failed" => sweep.log = <<>> /\ ~sweep.failed
  /\ (zstep.done /\ zstep.eval.origin = "sweep" /\ zstep.eval.failed) =>
       sweep.st = "running" /\ ~sweep.cur

\* C20 witness: the evaluation of the batch failed and the run went on to
\* evaluate the course and ended.
C20_Witness ==
  /\ sweep.st = "done"
  /\ sweep.failed
  /\ zstep.op = "sweepend"
  /\ zstep.eval.doc = CourseDoc
  /\ ~zstep.eval.failed

\* C21: an evaluation that writes zoomLink and zoomMeetingId never replaces
\* a meeting that another evaluation created and wrote to the document after
\* the snapshot it was called with: the zoomMeetingId it replaces is the one
\* of its own data, or is not a meeting created since the server started.
C21_NoStaleOverwrite ==
  [][(zstep'.op = "set" /\ zstep'.eval.wrote) =>
       LET e == zstep'.eval IN
       docs[e.doc].zoomMeetingId \in {MeetingId(n) : n \in 1..meetingCount} =>
         docs[e.doc].zoomMeetingId = e.data.zoomMeetingId]_vars

\* The handler resolves the delivery of body b to the enrollment e: by
\* notes.enrollmentId when that document exists, else by order_id.
ResolvesTo(b, e) ==
  IF b.notes # NoValue /\ Exists(b.notes) THEN e = b.notes
  ELSE e \in EnrollmentsOfOrder(b.order)

\* The document after a verified delivery of body b has been handled.
Handled(doc, b) == UpdateData(doc, HmacHex(WebhookSecret, b), ParseEvent(b))

\* C22: for any two verified payment.captured events that resolve to one
\* enrollment, the status, razorpayPaymentId, paymentMethod and set of audit
\* events of the enrollment are the same whichever is handled first.
C22_Commutative ==
  \A e \in DOMAIN enrollments : \A b1, b2 \in CapturedBodies :
    (ResolvesTo(b1, e) /\ ResolvesTo(b2, e)) =>
      LET d12 == Handled(Handled(enrollments[e], b1), b2)
          d21 == Handled(Handled(enrollments[e], b2), b1)
      IN  /\ d12.status = d21.status
          /\ d12.razorpayPaymentId = d21.razorpayPaymentId
          /\ d12.paymentMethod = d21.paymentMethod
          /\ Range(d12.rawWebhookEvents) = Range(d21.rawWebhookEvents)

\* C23: zoomWorkerRunning is true exactly while the timer of one worker is
\* pending, and whenever zoomTaskQueue holds a task; a worker is started only
\* when none is running; every queued call, a retried one included, is in the
\* end taken from the queue and executed; once the queue is empty
\* zoomWorkerRunning returns to false unless a task is enqueued before; and
\* an enqueue that finds no worker running starts one, which executes a task
\* at once.
C23_WorkerLifecycle ==
  /\ [](zoomWorkerRunning <=> workTimer # <<>>)
  /\ [](zoomTaskQueue # <<>> => zoomWorkerRunning)
  /\ [][qstep'.restart => ~zoomWorkerRunning /\ workTimer = <<>>]_vars
  /\ \A c \in 1..MaxCalls :
       (calls[c].st = "queued") ~> (calls[c].st = "inflight")
  /\ (zoomTaskQueue = <<>> /\ zoomWorkerRunning) ~>
       (~zoomWorkerRunning \/ zoomTaskQueue # <<>>)
  /\ [][(~zoomWorkerRunning
           /\ \E c \in 1..MaxCalls :
                calls[c].st \in {"none", "backoff"} /\ calls'[c].st # calls[c].st)
          => /\ zoomWorkerRunning'
             /\ qstep'.restart
             /\ calls'[qstep'.call].st = "inflight"]_vars

\* C23 witness: the worker had stopped on an empty queue, and the retry timer
\* of a call enqueued the call and started the worker again.
C23_Witness ==
  /\ qstep.op = "start"
  /\ qstep.restart
  /\ calls[qstep.call].attempt >= 2
  /\ zoomWorkerRunning

\* C24: the attempt of a call that fails with an error other than 429 is not
\* repeated: when fn() fails so, the call is rejected at that step, with that
\* error; a rejected call stays as it is, and is never put on the queue
\* again.
C24_ErrorNotRetried ==
  /\ [](\A c \in 1..MaxCalls :
          /\ calls[c].last = "error" => calls[c].st = "rejected"
          /\ calls[c].st = "rejected" =>
               /\ calls[c].timer = <<>>
               /\ c \notin Range(zoomTaskQueue))
  /\ [][\A c \in 1..MaxCalls :
          /\ (calls[c].st = "inflight" /\ calls'[c].last = "error"
                /\ calls'[c] # calls[c]) =>
               /\ calls'[c].st = "rejected"
               /\ calls'[c].attempt = calls[c].attempt
          /\ calls[c].st = "rejected" => calls'[c] = calls[c]]_vars

\* C24 witness: the first attempt of a call failed with an error other than
\* 429 and the call was rejected, while the worker went on to another call.
C24_Witness ==
  /\ calls[1].st = "rejected"
  /\ calls[1].last = "error"
  /\ calls[1].attempt = 1
  /\ calls[2].st = "resolved"

\* C25 (store failures aside): an evaluation of a document whose zoomLink is
\* neither the placeholder nor held with zoomMeetingId 'static' either finds
\* the zoomMeetingId valid at the provider or goes on to replace the link by
\* calling createZoomMeeting; so does an evaluation of a document with a
\* zoomLink and no zoomMeetingId.
C25_ValidatedOrReplaced ==
  (EvalEnded /\ zstep.eval.data.zoomLink # NoValue
     /\ ~isStatic(zstep.eval.data)) =>
    \/ zstep.eval.valid = "yes"
    \/ zstep.eval.cout # "none"

\* C26: an evaluation whose validity check did not meet code 3001 or HTTP 404
\* (the provider returned the meeting, the token could not be acquired, or the
\* request failed otherwise) writes no zoomLink, zoomMeetingId or zoomStartUrl
\* to the document.
C26_ValidLinkKept ==
  zstep.eval.vout \in {"ok", "notoken", "error"} => ~zstep.eval.wrote

\* C27: whatever the interleaving of the evaluations of the batch, the
\* evaluations add at most one pinned message to the messages of the batch.
C27_OnePinnedMessage == msgCount <= 1

\* C28: when the webhook handler has set an enrollment to Paid, the
\* razorpayOrderId stored in that enrollment is the order_id of the payment
\* of the event.
C28_PaidByOwnOrder ==
  WebhookUpdated =>
    enrollments[step.eid].razorpayOrderId = ParseEvent(step.req.body).order_id

\* The chain of a document has ended: every change has been handled and no
\* evaluation is running.
ChainEnded == changes = <<>> /\ evals = {} /\ evalCount > 0

\* C29: the chain of evaluations that the change events of a document start
\* ends, and when it has ended an evaluation of the document has run that
\* wrote nothing to the document.
C29_LoopReachesNoWrite ==
  /\ changes # <<>> => evalCount < MaxLoopEvals
  /\ ChainEnded => settled # {}

\* C30: once the client holds the orderId of its order, the enrollmentId it
\* polls is the id of the enrollment the order handler stored for that
\* order; and a poll made when the webhook handler has set the enrollment of
\* that order to Paid observes Paid.
C30_PollsPaidEnrollment ==
  /\ [](client.pc \in {"paying", "polling", "confirmed", "gaveup"} =>
          client.enrollmentId \in EnrollmentsOfOrder(client.orderId))
  /\ [][(/\ client.pc = "polling"
         /\ client' # client
         /\ \E e \in EnrollmentsOfOrder(client.orderId) :
              enrollments[e].status = "Paid")
          => client'.pc = "confirmed"]_vars

====
